---- MODULE Spec2Model ----
(***************************************************************************)
(* QuickVibe (streamlit_app.py): credential validation, input sanitizing,  *)
(* model catalog filtering, round-robin model rotation, chat dispatch and  *)
(* the session state they share.                                           *)
(*                                                                         *)
(* Text is modelled as a sequence of one-character strings, so that        *)
(* trimming, truncation, pattern matching and substring search are         *)
(* computed character by character as the Python code computes them.       *)
(* User-facing messages that the code only builds and compares as a whole  *)
(* are TLA+ strings (their emoji are left out).                            *)
(***************************************************************************)
EXTENDS Integers, Sequences, FiniteSets, TLC

VARIABLES
    api_key,                \* st.session_state.api_key
    api_validated,          \* st.session_state.api_validated
    quickvibe_chat_models,  \* st.session_state.quickvibe_chat_models
    current_model_index,    \* st.session_state.current_model_index
    chat_history,           \* st.session_state.chat_history
    error_log,              \* st.session_state.error_log
    now,                    \* the wall clock read by time.time()
    run,                    \* what the last script run did (observations)
    hist,                   \* history variables used to state the claims
    u_fn, u_in, u_out       \* a function applied on its own: name, input, results

vars == <<api_key, api_validated, quickvibe_chat_models, current_model_index,
          chat_history, error_log, now, run, hist, u_fn, u_in, u_out>>

sessionVars == <<api_key, api_validated, quickvibe_chat_models,
                 current_model_index, chat_history, error_log, now, run, hist>>

unitVars == <<u_fn, u_in, u_out>>

(***************************************************************************)
(* Program constants                                                       *)
(***************************************************************************)
MAX_CHAT_HISTORY == 50
MIN_API_KEY_LENGTH == 32
MAX_INPUT_CHARS == 2000
ERROR_LOG_LIMIT == 100
ERROR_LOG_KEEP == 50

(***************************************************************************)
(* Bounds of the model                                                     *)
(***************************************************************************)
MaxLen == 4             \* longest short text given to sanitize_input
MaxTail == 2            \* longest tail appended to a text near the cap
SanitizeRounds == 3     \* how many times sanitize_input is re-applied
MaxCatalog == 3         \* longest model listing returned by the service
MaxRuns == 4            \* how many user actions a session sees
FillPairs == 24         \* exchanges already in the transcript of a long session
MaxLogCalls == 103      \* how many times log_quickvibe_error is called in a row

(***************************************************************************)
(* Characters and text helpers                                             *)
(***************************************************************************)
LowerChars == <<"a","b","c","d","e","f","g","h","i","j","k","l","m","n","o","p","q","r","s","t","u","v","w","x","y","z">>
UpperChars == <<"A","B","C","D","E","F","G","H","I","J","K","L","M","N","O","P","Q","R","S","T","U","V","W","X","Y","Z">>
DigitChars == <<"0","1","2","3","4","5","6","7","8","9">>

Range(f) == {f[i] : i \in DOMAIN f}

\* str.strip() removes these from both ends
WhitespaceChars == {" ", "\t", "\n"}

\* the character class [a-zA-Z0-9_-]
KeyChars == Range(LowerChars) \cup Range(UpperChars) \cup Range(DigitChars) \cup {"_", "-"}

Repeat(c, n) == [i \in 1..n |-> c]

\* str.lower(), one character
LowerChar(c) ==
    IF \E i \in DOMAIN UpperChars : UpperChars[i] = c
    THEN LowerChars[CHOOSE i \in DOMAIN UpperChars : UpperChars[i] = c]
    ELSE c

Lower(s) == [i \in DOMAIN s |-> LowerChar(s[i])]

\* `kw in s` for Python strings
Contains(s, kw) ==
    \E i \in 1..(Len(s) - Len(kw) + 1) : SubSeq(s, i, i + Len(kw) - 1) = kw

\* str.strip()
Strip(s) ==
    IF \A i \in DOMAIN s : s[i] \in WhitespaceChars
    THEN <<>>
    ELSE LET first == CHOOSE i \in DOMAIN s :
                          /\ s[i] \notin WhitespaceChars
                          /\ \A k \in 1..(i - 1) : s[k] \in WhitespaceChars
             last  == CHOOSE i \in DOMAIN s :
                          /\ s[i] \notin WhitespaceChars
                          /\ \A k \in (i + 1)..Len(s) : s[k] \in WhitespaceChars
         IN  SubSeq(s, first, last)

Truncate_Off(s, n) == s

\* s[:n]
Truncate(s, n) == IF Len(s) <= n THEN s ELSE SubSeq(s, 1, n)

MinOf(S) == CHOOSE x \in S : \A y \in S : x <= y

ReSubMarkup_FirstOnly(s) ==
    LET opens == {i \in DOMAIN s : s[i] = "<"}
    IN  IF opens = {} THEN s
        ELSE LET i == MinOf(opens)
                 closes == {j \in (i + 1)..Len(s) : s[j] = ">"}
             IN  IF closes = {} THEN s
                 ELSE SubSeq(s, 1, i - 1) \o SubSeq(s, MinOf(closes) + 1, Len(s))

\* re.sub(r'<[^>]*>', '', s): scanning from the left, the first '<' that has
\* a '>' somewhere after it starts a match that runs to the first such '>'
\* ([^>]* may take '<'); the scan goes on after the match.  A '<' with no
\* '>' after it matches nothing, and neither does any '<' that follows it.
RECURSIVE ReSubMarkup(_)
ReSubMarkup(s) ==
    LET opens == {i \in DOMAIN s : s[i] = "<"}
    IN  IF opens = {} THEN s
        ELSE LET i == MinOf(opens)
                 closes == {j \in (i + 1)..Len(s) : s[j] = ">"}
             IN  IF closes = {} THEN s
                 ELSE SubSeq(s, 1, i - 1)
                        \o ReSubMarkup(SubSeq(s, MinOf(closes) + 1, Len(s)))

(***************************************************************************)
(* Security and validation functions                                       *)
(***************************************************************************)
KeyPrefix == <<"g","s","k","_">>

\* re.match(r'^gsk_[a-zA-Z0-9_-]+$', api_key) on a stripped key
MatchesKeyPattern(k) ==
    /\ Len(k) >= Len(KeyPrefix) + 1
    /\ SubSeq(k, 1, Len(KeyPrefix)) = KeyPrefix
    /\ \A i \in (Len(KeyPrefix) + 1)..Len(k) : k[i] \in KeyChars

ReasonRequired == "API key is required"
ReasonTooShort == "API key too short (minimum 32 characters)"
ReasonBadFormat == "Invalid API key format (should start with 'gsk_')"

validate_api_key_FormatFirst(key) ==
    IF key = <<>> THEN <<FALSE, ReasonRequired>>
    ELSE LET k == Strip(key)
         IN  IF ~MatchesKeyPattern(k) THEN <<FALSE, ReasonBadFormat>>
             ELSE IF Len(k) < MIN_API_KEY_LENGTH THEN <<FALSE, ReasonTooShort>>
             ELSE <<TRUE, "">>

\* validate_api_key: (is_valid, error_message)
validate_api_key(key) ==
    IF key = <<>> THEN <<FALSE, ReasonRequired>>
    ELSE LET k == Strip(key)
         IN  IF Len(k) < MIN_API_KEY_LENGTH THEN <<FALSE, ReasonTooShort>>
             ELSE IF ~MatchesKeyPattern(k) THEN <<FALSE, ReasonBadFormat>>
             ELSE <<TRUE, "">>

\* sanitize_input on a text input
sanitize_input(input_value) ==
    ReSubMarkup(Truncate(Strip(input_value), MAX_INPUT_CHARS))

(***************************************************************************)
(* API and model management                                                *)
(***************************************************************************)
excluded_keywords == <<
    <<"t","t","s">>, <<"w","h","i","s","p","e","r">>, <<"v","i","s","i","o","n">>,
    <<"a","u","d","i","o">>, <<"i","m","a","g","e">>, <<"s","p","e","e","c","h">>,
    <<"s","c","o","u","t">>, <<"m","a","v","e","r","i","c","k">>,
    <<"p","l","a","y","a","i">>, <<"l","l","a","m","a","-","g","u","a","r","d">>,
    <<"g","u","a","r","d">> >>

included_keywords == <<
    <<"l","l","a","m","a">>, <<"m","i","x","t","r","a","l">>, <<"g","e","m","m","a">> >>

is_chat_model_InclusionFirst(model_id) ==
    LET model_lower == Lower(model_id)
    IN  \/ \E i \in DOMAIN included_keywords : Contains(model_lower, included_keywords[i])
        \/ ~ \E i \in DOMAIN excluded_keywords : Contains(model_lower, excluded_keywords[i])

\* _is_chat_model
is_chat_model(model_id) ==
    LET model_lower == Lower(model_id)
    IN  IF \E i \in DOMAIN excluded_keywords : Contains(model_lower, excluded_keywords[i])
        THEN FALSE
        ELSE \E i \in DOMAIN included_keywords : Contains(model_lower, included_keywords[i])

ErrNoModels == "No models returned from API"
ErrNoChatModels == "No suitable chat models found. QuickVibe needs models like Llama, Mixtral, or Gemma."

\* What client.models.list() does: it raises (detail is str(e)), or returns a
\* page whose data lists the service's model identifiers.
Raised(detail) == [kind |-> "raise", detail |-> detail, data |-> <<>>]
Page(ids) == [kind |-> "page", detail |-> "", data |-> ids]

\* fetch_groq_models_for_quickvibe: (success, models_list_or_error_message).
\* A descriptor is modelled by its id, the only field the callers read.
fetch_groq_models_for_quickvibe(key, listing) ==
    LET v == validate_api_key(key)
    IN  IF ~v[1] THEN <<FALSE, <<"API key validation failed: ", v[2]>> >>
        ELSE IF listing.kind = "raise"
             THEN <<FALSE, <<"Failed to fetch models: ", listing.detail>> >>
        ELSE IF listing.data = <<>> THEN <<FALSE, <<ErrNoModels>> >>
        ELSE LET models_list == SelectSeq(listing.data, LAMBDA id : id # <<>>)
                 chat_models_list == SelectSeq(models_list, is_chat_model)
             IN  IF chat_models_list = <<>> THEN <<FALSE, <<ErrNoChatModels>> >>
                 ELSE <<TRUE, chat_models_list>>

(***************************************************************************)
(* Session state: the defaults of initialize_quickvibe_session_state       *)
(***************************************************************************)
NoModel == <<>>     \* None, where a model id is expected

\* what one script run did; reset when a run starts
NoRun == [event |-> "none", failures |-> <<>>, fetches |-> 0, completions |-> 0,
          appended |-> 0, selected |-> NoModel, dispatch |-> "none",
          result |-> <<>>, reruns |-> 0]

\* what happened since the session began: whether a fetch for the stored
\* credential has succeeded since it last changed, the models the rotator
\* returned since the model sequence was last loaded, every transcript entry
\* and every error-log entry ever appended
NoHist == [fetched_ok |-> FALSE, returned |-> <<>>, all_chat |-> <<>>,
           all_logged |-> <<>>]

SessionDefaults(env_key) ==
    /\ api_key = env_key
    /\ api_validated = FALSE
    /\ quickvibe_chat_models = <<>>
    /\ current_model_index = 0
    /\ chat_history = <<>>
    /\ error_log = <<>>
    /\ now = 0
    /\ run = NoRun
    /\ hist = NoHist

(***************************************************************************)
(* The session as one value, passed through the functions of a script run  *)
(***************************************************************************)
Session ==
    [api_key |-> api_key, api_validated |-> api_validated,
     quickvibe_chat_models |-> quickvibe_chat_models,
     current_model_index |-> current_model_index,
     chat_history |-> chat_history, error_log |-> error_log,
     now |-> now, run |-> run, hist |-> hist]

\* F(v), with v computed once (a LET definition is computed again at each use)
Let(v, F(_)) == CHOOSE r \in {F(x) : x \in {v}} : TRUE

Failed(st, kind) == [st EXCEPT !.run.failures = Append(@, kind)]

LastN(s, n) == SubSeq(s, Len(s) - n + 1, Len(s))

log_quickvibe_error_NoAppend(st, error_msg) == st

\* log_quickvibe_error keeping the oldest entries when it cuts the log
log_quickvibe_error_KeepOldest(st, error_msg) ==
    Let([timestamp |-> st.now, message |-> error_msg], LAMBDA error_entry :
        [st EXCEPT !.error_log = IF Len(@) + 1 > ERROR_LOG_LIMIT
                                 THEN SubSeq(Append(@, error_entry), 1, ERROR_LOG_KEEP)
                                 ELSE Append(@, error_entry),
                   !.hist.all_logged = Append(@, error_entry),
                   !.run.appended = @ + 1])

\* log_quickvibe_error
log_quickvibe_error(st, error_msg) ==
    Let([timestamp |-> st.now, message |-> error_msg], LAMBDA error_entry :
        [st EXCEPT !.error_log = IF Len(@) + 1 > ERROR_LOG_LIMIT
                                 THEN LastN(Append(@, error_entry), ERROR_LOG_KEEP)
                                 ELSE Append(@, error_entry),
                   !.hist.all_logged = Append(@, error_entry),
                   !.run.appended = @ + 1])

\* the outcome of a fetch, as the run and the history see it: the listing
\* call was made unless the key failed validation first
NoteFetch(st, key, r) ==
    Let(validate_api_key(key)[1], LAMBDA called :
        IF r[1]
        THEN [st EXCEPT !.run.fetches = @ + 1,
                        !.hist.fetched_ok = TRUE, !.hist.returned = <<>>]
        ELSE IF called
        THEN Failed([st EXCEPT !.run.fetches = @ + 1], "catalog")
        ELSE Failed(st, "validation"))

\* _auto_validate_api_key (the fetch catches every exception itself, so the
\* except branch of lines 189-191 is never entered)
auto_validate_api_key(st, listing) ==
    Let(fetch_groq_models_for_quickvibe(st.api_key, listing), LAMBDA r :
        IF r[1]
        THEN [NoteFetch(st, st.api_key, r)
                 EXCEPT !.quickvibe_chat_models = r[2],
                        !.api_validated = TRUE,
                        !.current_model_index = 0]
        ELSE [NoteFetch(st, st.api_key, r) EXCEPT !.api_validated = FALSE])

TrimHistory_Off(h) == h

\* lines 168-169: keep the last MAX_CHAT_HISTORY entries
TrimHistory(h) ==
    IF Len(h) > MAX_CHAT_HISTORY THEN LastN(h, MAX_CHAT_HISTORY) ELSE h

\* initialize_quickvibe_session_state, the defaults being set already
initialize_quickvibe_session_state(st, listing) ==
    Let([st EXCEPT !.chat_history = TrimHistory(@)], LAMBDA st1 :
        IF st1.api_key # <<>> /\ ~ st1.api_validated
        THEN auto_validate_api_key(st1, listing)
        ELSE st1)

on_api_key_input_KeepFlag(session, api_key_input) ==
    Let(session, LAMBDA st :
        IF api_key_input # st.api_key
        THEN [st EXCEPT !.api_key = api_key_input,
                        !.quickvibe_chat_models = <<>>,
                        !.hist.fetched_ok = FALSE]
        ELSE st)

\* the key edit forgetting to drop the models of the previous key
on_api_key_input_KeepModels(session, api_key_input) ==
    Let(session, LAMBDA st :
        IF api_key_input # st.api_key
        THEN [st EXCEPT !.api_key = api_key_input,
                        !.api_validated = FALSE,
                        !.hist.fetched_ok = FALSE]
        ELSE st)

\* quickvibe_main, lines 607-610: the text input differs from the stored key
on_api_key_input(session, api_key_input) ==
    Let(session, LAMBDA st :
        IF api_key_input # st.api_key
        THEN [st EXCEPT !.api_key = api_key_input,
                        !.api_validated = FALSE,
                        !.quickvibe_chat_models = <<>>,
                        !.hist.fetched_ok = FALSE]
        ELSE st)

on_connect_KeepIndex(st, listing) ==
    IF st.api_key # <<>> /\ Strip(st.api_key) # <<>>
    THEN Let(fetch_groq_models_for_quickvibe(st.api_key, listing), LAMBDA r :
             IF r[1]
             THEN [NoteFetch(st, st.api_key, r)
                      EXCEPT !.quickvibe_chat_models = r[2],
                             !.api_validated = TRUE]
             ELSE [NoteFetch(st, st.api_key, r)
                      EXCEPT !.api_validated = FALSE,
                             !.quickvibe_chat_models = <<>>])
    ELSE Failed(st, "validation")

\* quickvibe_main, lines 612-627: the connect button was pressed
on_connect(st, listing) ==
    IF st.api_key # <<>> /\ Strip(st.api_key) # <<>>
    THEN Let(fetch_groq_models_for_quickvibe(st.api_key, listing), LAMBDA r :
             IF r[1]
             THEN [NoteFetch(st, st.api_key, r)
                      EXCEPT !.quickvibe_chat_models = r[2],
                             !.api_validated = TRUE,
                             !.current_model_index = 0]
             ELSE [NoteFetch(st, st.api_key, r)
                      EXCEPT !.api_validated = FALSE,
                             !.quickvibe_chat_models = <<>>])
    ELSE Failed(st, "validation")

\* _is_quickvibe_api_configured
is_quickvibe_api_configured(st) ==
    /\ st.api_validated
    /\ st.quickvibe_chat_models # <<>>
    /\ st.api_key # <<>>

get_next_quickvibe_model_NoAdvance(session) ==
    Let(session, LAMBDA st :
    LET models == st.quickvibe_chat_models
        index == st.current_model_index
    IN  IF models = <<>> THEN Failed([st EXCEPT !.run.selected = NoModel], "rotation")
        ELSE [st EXCEPT !.run.selected = models[index + 1],
                        !.hist.returned = Append(@, models[index + 1])])

\* get_next_quickvibe_model rewinding the cursor when there is no model
get_next_quickvibe_model_ResetOnEmpty(session) ==
    Let(session, LAMBDA st :
    LET models == st.quickvibe_chat_models
        index == st.current_model_index
    IN  IF models = <<>>
        THEN Failed([st EXCEPT !.current_model_index = 0,
                               !.run.selected = NoModel], "rotation")
        ELSE [st EXCEPT !.current_model_index = (index + 1) % Len(models),
                        !.run.selected = models[index + 1],
                        !.hist.returned = Append(@, models[index + 1])])

\* get_next_quickvibe_model; run.selected is what it returns.  Python accepts
\* an index from -len to len - 1 and raises IndexError outside that range.
get_next_quickvibe_model(session) ==
    Let(session, LAMBDA st :
    LET models == st.quickvibe_chat_models
        index == st.current_model_index
    IN  IF models = <<>> THEN Failed([st EXCEPT !.run.selected = NoModel], "rotation")
        ELSE IF index >= - Len(models) /\ index < Len(models)
        THEN LET model_id == IF index >= 0 THEN models[index + 1]
                             ELSE models[Len(models) + index + 1]
             IN  [st EXCEPT !.current_model_index = (index + 1) % Len(models),
                            !.run.selected = model_id,
                            !.hist.returned = Append(@, model_id)]
        ELSE Failed([st EXCEPT !.current_model_index = 0,
                               !.run.selected = NoModel], "rotation"))

(***************************************************************************)
(* Message processing                                                      *)
(***************************************************************************)
\* What client.chat.completions.create() does: it raises, or returns a
\* completion whose choices hold the reply texts ("" for no content).
Completion(texts) == [kind |-> "reply", detail |-> "", choices |-> texts]

MsgRequired == <<"Model and message are required.">>
MsgNoKey == <<"No API key configured. Please add your API key in the sidebar.">>
MsgNothingLeft == <<"Invalid or empty message after sanitization.">>
NoContent == "No response content generated"

\* line 352
ExceptionMessage(detail) == <<"Yikes, server's trippin': ", detail>>

\* line 347
EmptyReplyMessage == <<"Yikes, got empty response: ", NoContent>>

Returned(st, ok, message, dispatch) ==
    [st EXCEPT !.run.result = <<ok, message>>, !.run.dispatch = dispatch]

on_empty_reply_NoLog(st) ==
    Returned(Failed(st, "dispatch"), FALSE, EmptyReplyMessage, "empty")

\* send_quickvibe_message, lines 344-347
on_empty_reply(st) ==
    Returned(Failed(log_quickvibe_error(st, <<NoContent>>), "dispatch"),
             FALSE, EmptyReplyMessage, "empty")

\* send_quickvibe_message, lines 349-352
on_exception(st, model, detail) ==
    Returned(Failed(log_quickvibe_error(st,
                        <<"QuickVibe chat failed with model ">> \o model
                            \o <<": ", detail>>), "dispatch"),
             FALSE, ExceptionMessage(detail), "exception")

\* send_quickvibe_message without the check of line 312
send_quickvibe_message_NoEmptyCheck(st, model, user_message, completion) ==
    IF model = <<>> \/ user_message = <<>>
    THEN Returned(Failed(st, "validation"), FALSE, MsgRequired, "rejected")
    ELSE IF st.api_key = <<>>
    THEN Returned(Failed(st, "validation"), FALSE, MsgNoKey, "rejected")
    ELSE Let([st EXCEPT !.run.completions = @ + 1], LAMBDA st1 :
             IF completion.kind = "raise"
             THEN on_exception(st1, model, completion.detail)
             ELSE IF completion.choices # <<>> /\ completion.choices[1] # ""
             THEN Returned(st1, TRUE, <<completion.choices[1]>>, "ok")
             ELSE on_empty_reply(st1))

\* send_quickvibe_message; run.result is what it returns
send_quickvibe_message(st, model, user_message, completion) ==
    IF model = <<>> \/ user_message = <<>>
    THEN Returned(Failed(st, "validation"), FALSE, MsgRequired, "rejected")
    ELSE IF st.api_key = <<>>
    THEN Returned(Failed(st, "validation"), FALSE, MsgNoKey, "rejected")
    ELSE IF sanitize_input(user_message) = <<>>
    THEN Returned(Failed(st, "validation"), FALSE, MsgNothingLeft, "rejected")
    ELSE Let([st EXCEPT !.run.completions = @ + 1], LAMBDA st1 :
             IF completion.kind = "raise"
             THEN on_exception(st1, model, completion.detail)
             ELSE IF completion.choices # <<>> /\ completion.choices[1] # ""
             THEN Returned(st1, TRUE, <<completion.choices[1]>>, "ok")
             ELSE on_empty_reply(st1))

AppendChat(st, entry) ==
    [st EXCEPT !.chat_history = Append(@, entry),
               !.hist.all_chat = Append(@, entry)]

\* the message handler appending a failure like a reply
on_user_input_NoErrorTag(st, user_input, completion) ==
    Let(get_next_quickvibe_model(
            AppendChat(st, [role |-> "user", content |-> user_input])),
        LAMBDA st2 :
        IF st2.run.selected = NoModel THEN st2
        ELSE Let(send_quickvibe_message(st2, st2.run.selected, user_input,
                                        completion),
                 LAMBDA st3 :
                 [AppendChat(st3,
                      [role |-> "assistant", content |-> st3.run.result[2],
                       model_used |-> st2.run.selected])
                    EXCEPT !.run.reruns = @ + 1]))

\* quickvibe_main, lines 693-712: a message was submitted
on_user_input(st, user_input, completion) ==
    Let(get_next_quickvibe_model(
            AppendChat(st, [role |-> "user", content |-> user_input])),
        LAMBDA st2 :
        IF st2.run.selected = NoModel THEN st2
        ELSE Let(send_quickvibe_message(st2, st2.run.selected, user_input,
                                        completion),
                 LAMBDA st3 :
                 [AppendChat(st3,
                      IF st3.run.result[1]
                      THEN [role |-> "assistant", content |-> st3.run.result[2],
                            model_used |-> st2.run.selected]
                      ELSE [role |-> "assistant", content |-> st3.run.result[2],
                            model_used |-> st2.run.selected, error |-> TRUE])
                    EXCEPT !.run.reruns = @ + 1]))

\* the widgets of one script run
Widgets(key_input, connect, user_input) ==
    [api_key_input |-> key_input, connect |-> connect, user_input |-> user_input]

\* quickvibe_main, one script run from top to bottom.  listing1 is what the
\* listing call answers during initialisation, listing2 on connect.
script_run(st, w, listing1, listing2, completion) ==
    Let(on_api_key_input(initialize_quickvibe_session_state(st, listing1),
                         w.api_key_input), LAMBDA st2 :
    Let(IF w.connect THEN on_connect(st2, listing2) ELSE st2, LAMBDA st3 :
        IF ~ is_quickvibe_api_configured(st3) THEN st3
        ELSE IF w.user_input # <<>> THEN on_user_input(st3, w.user_input, completion)
        ELSE st3))

\* quickvibe_main: the run a user action starts and, when the run ends in
\* st.rerun() (line 712), the run that follows it at once with no widget
\* set.  The clock moves on before the run.
quickvibe_main(st, event, w, listing1, listing2, completion, listing3) ==
    Let(script_run([st EXCEPT !.now = @ + 1,
                              !.run = [NoRun EXCEPT !.event = event]],
                   w, listing1, listing2, completion), LAMBDA st1 :
        IF st1.run.reruns > 0
        THEN script_run(st1, Widgets(st1.api_key, FALSE, <<>>), listing3,
                        listing3, completion)
        ELSE st1)

(***************************************************************************)
(* The session specification                                               *)
(***************************************************************************)
ValidKeyA == KeyPrefix \o Repeat("a", MIN_API_KEY_LENGTH)
ValidKeyB == KeyPrefix \o Repeat("b", MIN_API_KEY_LENGTH)
ShortKey == <<"a","b","c","1","2","3">>

Llama70b == <<"l","l","a","m","a","-","7","0","b">>
WhisperLarge == <<"w","h","i","s","p","e","r","-","l","a","r","g","e">>
LlamaGuard2 == <<"l","l","a","m","a","-","g","u","a","r","d","-","2">>
Mixtral8x7b == <<"M","i","x","t","r","a","l","-","8","x","7","b">>
Gemma7b == <<"g","e","m","m","a","-","7","b">>
Gpt4 == <<"g","p","t","-","4">>
LlamaVision == <<"L","L","a","M","A","-","V","i","s","i","o","n">>

\* the GROQ_API_KEY of the environment
EnvKeys == {<<>>, ValidKeyA}

\* what the user may type into the key field
TypedKeys == {<<>>, ValidKeyA, ValidKeyB, ShortKey}

\* what the listing call may answer
Listings == {Raised("timeout"),
             Page(<<WhisperLarge>>),
             Page(<<Llama70b, WhisperLarge, LlamaGuard2>>),
             Page(<<Llama70b, Gpt4, Mixtral8x7b>>)}

\* what the user may send: a greeting with spaces around it, markup only
Messages == {<<" ","h","i"," ">>, <<"<","b",">">>}

\* what the completion call may answer: an exception (one of them with the
\* text of the empty-reply error), a reply, an empty reply, no reply
Completions == {Raised("timeout"), Raised(NoContent),
                Completion(<<"sup">>), Completion(<<"">>), Completion(<<>>)}

Idle == u_fn = "none" /\ u_in = <<>> /\ u_out = <<>>

TwoModels == <<Llama70b, Mixtral8x7b>>

Greeting == <<" ","h","i"," ">>

\* the transcript after n exchanges that all succeeded, models taken in turn
FilledChat(n) ==
    [i \in 1..(2 * n) |->
        IF i % 2 = 1 THEN [role |-> "user", content |-> Greeting]
        ELSE [role |-> "assistant", content |-> <<"sup">>,
              model_used |-> TwoModels[(((i \div 2) - 1) % Len(TwoModels)) + 1]]]

\* a session that loaded TwoModels with ValidKeyA and then had FillPairs
\* exchanges, all of them successful
LongSession ==
    /\ api_key = ValidKeyA
    /\ api_validated = TRUE
    /\ quickvibe_chat_models = TwoModels
    /\ current_model_index = FillPairs % Len(TwoModels)
    /\ chat_history = FilledChat(FillPairs)
    /\ error_log = <<>>
    /\ now = 0
    /\ run = NoRun
    /\ hist = [fetched_ok |-> TRUE,
               returned |-> [i \in 1..FillPairs |->
                                TwoModels[((i - 1) % Len(TwoModels)) + 1]],
               all_chat |-> FilledChat(FillPairs),
               all_logged |-> <<>>]

\* a new session, or a long-running one
Init == Idle /\ (LongSession \/ \E k \in EnvKeys : SessionDefaults(k))

Becomes(st) ==
    /\ api_key' = st.api_key
    /\ api_validated' = st.api_validated
    /\ quickvibe_chat_models' = st.quickvibe_chat_models
    /\ current_model_index' = st.current_model_index
    /\ chat_history' = st.chat_history
    /\ error_log' = st.error_log
    /\ now' = st.now
    /\ run' = st.run
    /\ hist' = st.hist
    /\ UNCHANGED unitVars

Quiet == Raised("none")

\* what the listing call may answer when a run begins: initialisation makes
\* the call only for a stored key that is not validated (line 172)
InitListings == IF api_key # <<>> /\ ~ api_validated THEN Listings ELSE {Quiet}

\* the page is loaded or re-run with no widget changed
Rerun ==
    /\ now < MaxRuns
    /\ \E l1 \in InitListings :
          Becomes(quickvibe_main(Session, "rerun", Widgets(api_key, FALSE, <<>>),
                                 l1, Quiet, Quiet, Quiet))

\* the user changes the text of the key field
EditKey ==
    /\ now < MaxRuns
    /\ \E k \in TypedKeys \ {api_key}, l1 \in InitListings :
          Becomes(quickvibe_main(Session, "edit", Widgets(k, FALSE, <<>>),
                                 l1, Quiet, Quiet, Quiet))

\* the user presses Connect & Load Models
ClickConnect ==
    /\ now < MaxRuns
    /\ \E l1 \in InitListings, l2 \in Listings :
          Becomes(quickvibe_main(Session, "connect", Widgets(api_key, TRUE, <<>>),
                                 l1, l2, Quiet, Quiet))

\* the user submits a message; the chat input is on the page only when the
\* last run found the API configured
SubmitMessage ==
    /\ now < MaxRuns
    /\ is_quickvibe_api_configured(Session)
    /\ \E m \in Messages, c \in Completions, l \in InitListings :
          Becomes(quickvibe_main(Session, "message", Widgets(api_key, FALSE, m),
                                 l, Quiet, c, l))

\* get_next_quickvibe_model called on its own, whatever the session holds
CallRotator ==
    /\ now < MaxRuns
    /\ Becomes(get_next_quickvibe_model(
           [Session EXCEPT !.now = @ + 1, !.run = [NoRun EXCEPT !.event = "rotate"]]))

Next == Rerun \/ EditKey \/ ClickConnect \/ SubmitMessage \/ CallRotator

Spec == Init /\ [][Next]_vars

(***************************************************************************)
(* The functions applied on their own                                      *)
(***************************************************************************)
TextsUpTo(alphabet, n) == UNION {[1..k -> alphabet] : k \in 0..n}

SanAlphabet == {"a", " ", "<", ">"}

\* texts shorter than the cap, and texts that reach or pass it
SanInputs ==
    TextsUpTo(SanAlphabet, MaxLen)
      \cup {Repeat("a", n) \o t : n \in (MAX_INPUT_CHARS - 2)..(MAX_INPUT_CHARS + 1),
                                  t \in TextsUpTo(SanAlphabet, MaxTail)}

KeyBodyLengths == {0, 1, MIN_API_KEY_LENGTH - 5, MIN_API_KEY_LENGTH - 4,
                   MIN_API_KEY_LENGTH + 8}

\* credentials: an optional pad, a prefix, a body of one repeated character
KeyInputs ==
    {lpad \o prefix \o Repeat(c, n) \o rpad :
        lpad \in {<<>>, <<" ">>}, rpad \in {<<>>, <<"\n">>},
        prefix \in {<<>>, KeyPrefix, <<"s","k","_">>, <<"G","S","K","_">>},
        c \in {"a", "Z", "7", "-", "!", " "},
        n \in KeyBodyLengths}


ModelIds == {Llama70b, WhisperLarge, LlamaGuard2, Mixtral8x7b, Gemma7b, Gpt4,
             LlamaVision, <<>>}

Catalogs == UNION {[1..k -> ModelIds] : k \in 0..MaxCatalog}


\* the messages the program logs (lines 346 and 351)
LogMessages ==
    { <<NoContent>>,
      <<"QuickVibe chat failed with model ">> \o Llama70b \o <<": ", "timeout">> }

InitUnit ==
    /\ SessionDefaults(<<>>)
    /\ u_out = <<>>
    /\ \/ u_fn = "sanitize" /\ u_in \in SanInputs
       \/ u_fn = "validate" /\ u_in \in KeyInputs
       \/ u_fn = "filter" /\ u_in \in Catalogs
       \/ u_fn = "log" /\ u_in \in LogMessages

\* sanitize_input(u_in), then sanitize_input of the previous result
ApplySanitize ==
    /\ u_fn = "sanitize"
    /\ Len(u_out) < SanitizeRounds
    /\ u_out' = Append(u_out, sanitize_input(IF u_out = <<>> THEN u_in
                                              ELSE u_out[Len(u_out)]))
    /\ UNCHANGED <<u_fn, u_in, sessionVars>>

ApplyValidate ==
    /\ u_fn = "validate"
    /\ u_out = <<>>
    /\ u_out' = <<validate_api_key(u_in)>>
    /\ UNCHANGED <<u_fn, u_in, sessionVars>>

\* the service lists u_in; the fetch filters it
ApplyFetch ==
    /\ u_fn = "filter"
    /\ u_out = <<>>
    /\ u_out' = <<fetch_groq_models_for_quickvibe(ValidKeyA, Page(u_in))>>
    /\ UNCHANGED <<u_fn, u_in, sessionVars>>

\* one more call of log_quickvibe_error(u_in), the clock having advanced
ApplyLog ==
    /\ u_fn = "log"
    /\ now < MaxLogCalls
    /\ Becomes(log_quickvibe_error(
           [Session EXCEPT !.now = @ + 1, !.run = [NoRun EXCEPT !.event = "log"]],
           u_in))

NextUnit == ApplySanitize \/ ApplyValidate \/ ApplyFetch \/ ApplyLog

SpecUnit == InitUnit /\ [][NextUnit]_vars

(***************************************************************************)
(* Claims about the functions applied on their own (SpecUnit)              *)
(***************************************************************************)
Sanitized(n) == u_fn = "sanitize" /\ Len(u_out) >= n

\* a '<...>' span: a '<' with a '>' somewhere after it
HasSpan(s) ==
    LET opens == {i \in DOMAIN s : s[i] = "<"}
    IN  opens # {} /\ \E j \in (MinOf(opens) + 1)..Len(s) : s[j] = ">"

Trimmed(s) ==
    s = <<>> \/ (s[1] \notin WhitespaceChars /\ s[Len(s)] \notin WhitespaceChars)

\* C6 as stated: sanitize_input is idempotent, for every text input
\* sanitize_input(sanitize_input(s)) = sanitize_input(s).
C6_Idempotent == Sanitized(2) => u_out[2] = u_out[1]

\* C6 amended: sanitize_input is idempotent up to surrounding whitespace.  A
\* second application only trims the first result and is a fixed point:
\* sanitize_input(sanitize_input(s)) is sanitize_input(s) without its leading
\* and trailing whitespace, it equals sanitize_input(s) whenever that has no
\* leading or trailing whitespace, and a third application changes nothing.
C6_IdempotentUpToTrim ==
    /\ Sanitized(2) =>
          /\ Len(u_out[2]) <= Len(u_out[1])
          /\ Trimmed(u_out[2])
          /\ \E i \in 0..Len(u_out[1]) :
                /\ u_out[2] = SubSeq(u_out[1], i + 1, i + Len(u_out[2]))
                /\ \A k \in (1..i) \cup ((i + Len(u_out[2]) + 1)..Len(u_out[1])) :
                      u_out[1][k] \in WhitespaceChars
          /\ (Trimmed(u_out[1]) => u_out[2] = u_out[1])
    /\ Sanitized(3) => u_out[3] = u_out[2]

\* C6 witness: a text with markup next to whitespace was sanitized three
\* times and the second result differs from the first
C6_Witness ==
    /\ Sanitized(3)
    /\ HasSpan(u_in)
    /\ u_out[1] # u_out[2]
    /\ u_out[3] = u_out[2]

\* C7 as stated: for every text input that contains a '<...>' span, the output
\* of sanitize_input contains no '<' and no '>' and is at most 2000 characters
\* long.
C7_NoAngleBrackets ==
    (Sanitized(1) /\ HasSpan(u_in)) =>
        /\ \A i \in DOMAIN u_out[1] : u_out[1][i] \notin {"<", ">"}
        /\ Len(u_out[1]) <= MAX_INPUT_CHARS

\* C7 amended: for every text input that contains a '<...>' span, the output
\* of sanitize_input contains no '<...>' span (no '<' with a '>' after it) and
\* is at most 2000 characters long; a '>' that comes before any '<', and a '<'
\* that nothing closes (also one whose '>' the truncation cut off), stay.
C7_NoSpanLeft ==
    (Sanitized(1) /\ HasSpan(u_in)) =>
        /\ ~ HasSpan(u_out[1])
        /\ Len(u_out[1]) <= MAX_INPUT_CHARS

\* C7 witness: a text with a span whose output still holds an angle bracket
C7_Witness ==
    /\ Sanitized(1)
    /\ HasSpan(u_in)
    /\ \E i \in DOMAIN u_out[1] : u_out[1][i] \in {"<", ">"}

\* C7 witness for the cap: a text with a span, longer than the cap
C7_WitnessLong ==
    /\ Sanitized(1)
    /\ HasSpan(u_in)
    /\ Len(u_in) > MAX_INPUT_CHARS
    /\ Len(u_out[1]) = MAX_INPUT_CHARS

Fetched == u_fn = "filter" /\ u_out # <<>>

\* the claim's rule for one identifier
Suitable(id) ==
    /\ \A i \in DOMAIN excluded_keywords : ~ Contains(Lower(id), excluded_keywords[i])
    /\ \E i \in DOMAIN included_keywords : Contains(Lower(id), included_keywords[i])

\* C8: the catalog filter keeps an identifier iff its lower-cased form holds no
\* exclusion keyword and at least one inclusion keyword; exclusion wins over
\* inclusion, an identifier matching neither list is dropped, the kept ones
\* stay in the service's order, and llama-70b, whisper-large, llama-guard-2
\* filters to exactly llama-70b.
C8_FilterRule ==
    Fetched =>
        LET kept == IF u_out[1][1] THEN u_out[1][2] ELSE <<>>
            keep == {j \in DOMAIN u_in : u_in[j] # <<>> /\ Suitable(u_in[j])}
        IN  /\ Len(kept) = Cardinality(keep)
            /\ \E f \in [DOMAIN kept -> DOMAIN u_in] :
                  /\ \A i \in DOMAIN kept : kept[i] = u_in[f[i]]
                  /\ \A i, k \in DOMAIN kept : i < k => f[i] < f[k]
                  /\ {f[i] : i \in DOMAIN kept} = keep
            /\ (u_out[1][1] <=> keep # {})
            /\ (u_in = <<Llama70b, WhisperLarge, LlamaGuard2>>
                    => u_out[1] = <<TRUE, <<Llama70b>> >>)

\* C8 witness: a listing with an excluded, an unlisted and two kept models,
\* an upper-case one among them
C8_Witness ==
    /\ Fetched
    /\ u_in = <<Mixtral8x7b, LlamaGuard2, Llama70b>>
    /\ u_out[1] = <<TRUE, <<Mixtral8x7b, Llama70b>> >>

Validated == u_fn = "validate" /\ u_out # <<>>

StartsWithPrefix(k) ==
    Len(k) >= Len(KeyPrefix) /\ SubSeq(k, 1, Len(KeyPrefix)) = KeyPrefix

\* C9 as stated: validate_api_key returns (False, reason), reason non-empty,
\* for every credential shorter than 32 or lacking the 'gsk_' prefix; the
\* reason is empty exactly when the result is valid; a credential both too
\* short and wrongly prefixed is reported as too short.
C9_RejectsShortOrUnprefixed ==
    Validated =>
        LET valid == u_out[1][1]
            reason == u_out[1][2]
        IN  /\ (Len(u_in) < MIN_API_KEY_LENGTH \/ ~ StartsWithPrefix(u_in))
                  => (~ valid /\ reason # "")
            /\ (reason = "" <=> valid)
            /\ (u_in # <<>> /\ Len(u_in) < MIN_API_KEY_LENGTH /\ ~ StartsWithPrefix(u_in))
                  => reason = ReasonTooShort

\* C9 amended: the length and the prefix are those of the credential with its
\* surrounding whitespace trimmed.  validate_api_key returns (False, reason),
\* reason non-empty, for every credential that, trimmed, is shorter than 32 or
\* lacks the 'gsk_' prefix; the reason is empty exactly when the result is
\* valid; a non-empty credential that is, trimmed, both too short and wrongly
\* prefixed is reported as too short.
C9_RejectsShortOrUnprefixedTrimmed ==
    Validated =>
        LET valid == u_out[1][1]
            reason == u_out[1][2]
            k == Strip(u_in)
        IN  /\ (Len(k) < MIN_API_KEY_LENGTH \/ ~ StartsWithPrefix(k))
                  => (~ valid /\ reason # "")
            /\ (reason = "" <=> valid)
            /\ (u_in # <<>> /\ Len(k) < MIN_API_KEY_LENGTH /\ ~ StartsWithPrefix(k))
                  => reason = ReasonTooShort
            /\ (u_in # <<>> /\ Len(k) < MIN_API_KEY_LENGTH) => reason = ReasonTooShort

\* C9 witness: a padded credential, too short and wrongly prefixed once
\* trimmed, was reported as too short
C9_Witness ==
    /\ Validated
    /\ u_in # Strip(u_in)
    /\ Strip(u_in) # <<>>
    /\ ~ StartsWithPrefix(Strip(u_in))
    /\ u_out[1] = <<FALSE, ReasonTooShort>>

(***************************************************************************)
(* Claims about the session (Spec)                                         *)
(***************************************************************************)
\* C1: model rotation is cyclic.  With the cursor at 0 when the sequence of N
\* models is loaded, the k-th call of get_next_quickvibe_model since then
\* returns the identifier at position (k - 1) mod N: N calls return every
\* identifier once in the original order and call N + 1 returns the first
\* again; every call advances the cursor by one modulo N, whether or not the
\* dispatch that follows succeeds.
C1_RotationCyclic ==
    quickvibe_chat_models # <<>> =>
        LET N == Len(quickvibe_chat_models)
        IN  /\ \A k \in DOMAIN hist.returned :
                  hist.returned[k] = quickvibe_chat_models[((k - 1) % N) + 1]
            /\ current_model_index = Len(hist.returned) % N

\* C1 witness: two models, three calls since they were loaded, the third
\* returning the first model again, the last dispatch having failed
C1_Witness ==
    /\ Len(quickvibe_chat_models) = 2
    /\ Len(hist.returned) = 3
    /\ hist.returned[1] # hist.returned[2]
    /\ hist.returned[3] = quickvibe_chat_models[1]
    /\ run.dispatch \in {"exception", "empty"}

\* C2: whenever the model sequence is non-empty the rotation cursor satisfies
\* 0 <= cursor < len(models), in every reachable state.
C2_CursorInRange ==
    quickvibe_chat_models # <<>> =>
        /\ 0 <= current_model_index
        /\ current_model_index < Len(quickvibe_chat_models)

\* C2 witness: a connect loaded a single model after the rotator had moved
\* the cursor over a longer sequence
C2_Witness ==
    /\ run.event = "connect"
    /\ run.fetches = 1
    /\ Len(quickvibe_chat_models) = 1
    /\ Len(hist.all_chat) = 2
    /\ current_model_index = 0

C4_ValidatedOnlyAfterFetch ==
    api_validated => hist.fetched_ok

\* C4 witness: the credential was changed and is not validated
C4_Witness ==
    /\ run.event = "edit"
    /\ api_key = ValidKeyB
    /\ run.fetches = 0
    /\ ~ api_validated
    /\ hist.returned # <<>>

DispatchFailures == {i \in DOMAIN run.failures : run.failures[i] = "dispatch"}

\* C5 as stated: every failure of every kind (validation failure before a
\* network call, catalog fetch failure, dispatch failure, no model available
\* for rotation) appends an entry with a timestamp to the session error log.
C5_EveryFailureLogged ==
    run.appended >= Len(run.failures)

\* C5 amended: every dispatch failure that reaches the completion call (the
\* call raised, or the reply was empty or missing) appends one entry with a
\* timestamp to the session error log; a validation failure before a network
\* call, a catalog fetch failure and the rotator finding no model append
\* nothing to it.
C5_DispatchFailuresLogged ==
    /\ run.appended = Cardinality(DispatchFailures)
    /\ Len(hist.all_logged) >= run.appended
    /\ Len(error_log) >= run.appended
    /\ \A i \in 1..run.appended :
          /\ error_log[Len(error_log) - i + 1].timestamp = now
          /\ error_log[Len(error_log) - i + 1]
                = hist.all_logged[Len(hist.all_logged) - i + 1]

\* C5 witness: a run whose completion call raised has logged its entry
C5_Witness ==
    /\ run.dispatch = "exception"
    /\ run.failures = <<"dispatch">>
    /\ run.appended = 1
    /\ error_log[Len(error_log)].timestamp = now

\* C10: a dispatch whose completion call returns an empty or missing reply
\* returns a failure whose message differs from the one returned when the
\* call raises, and appends exactly one entry to the error log.
C10_EmptyReply ==
    [][run'.dispatch = "empty" =>
          /\ run'.result[1] = FALSE
          /\ \A c \in Completions :
                c.kind = "raise" => run'.result[2] # ExceptionMessage(c.detail)
          /\ run'.appended = 1
          /\ error_log' = Append(error_log, [timestamp |-> now',
                                             message |-> <<NoContent>>])
          /\ hist'.all_logged = Append(hist.all_logged, error_log'[Len(error_log')])
      ]_vars

\* C10 witness: the completion call returned an empty reply after an earlier
\* one had raised
C10_Witness ==
    /\ run.dispatch = "empty"
    /\ run.result = <<FALSE, EmptyReplyMessage>>
    /\ Len(error_log) = 2
    /\ error_log[2].message = <<NoContent>>
    /\ error_log[1].message # <<NoContent>>

\* the message of the run that has just handled a chat submission
SubmittedMessage == hist.all_chat[Len(hist.all_chat) - 1].content

\* C11 as stated: every submitted message triggers exactly one completion
\* request, whatever its content.
C11_ExactlyOneCall ==
    run.event = "message" => run.completions = 1

\* C11: a submitted message triggers at most one network call, a completion
\* request and never a catalog request: exactly one when the message is
\* non-empty after sanitization, none when sanitization leaves nothing
\* (the dispatch is then rejected before the request is built).
C11_OneCallUnlessRejected ==
    run.event = "message" =>
        /\ run.fetches = 0
        /\ run.completions = IF sanitize_input(SubmittedMessage) = <<>>
                             THEN 0 ELSE 1
        /\ run.completions = 0 <=> run.dispatch = "rejected"

\* C11 witness: a message made of markup only was submitted and rejected
\* without a request
C11_Witness ==
    /\ run.event = "message"
    /\ SubmittedMessage # <<>>
    /\ sanitize_input(SubmittedMessage) = <<>>
    /\ run.completions = 0
    /\ run.result = <<FALSE, MsgNothingLeft>>

\* C11 witness of the other case: a message that survives sanitization made
\* one request
C11_WitnessOne ==
    /\ run.event = "message"
    /\ sanitize_input(SubmittedMessage) # <<>>
    /\ run.completions = 1

\* C12: get_next_quickvibe_model called while the model sequence is empty
\* returns no selection on every call, without raising (the call ends with
\* the handled "rotation" outcome), and leaves the cursor, the model sequence
\* and the rest of the session as they were.
C12_EmptyRotation ==
    [][(run'.event = "rotate" /\ quickvibe_chat_models = <<>>) =>
          /\ run'.selected = NoModel
          /\ run'.failures = <<"rotation">>
          /\ current_model_index' = current_model_index
          /\ quickvibe_chat_models' = <<>>
          /\ UNCHANGED <<api_key, api_validated, chat_history, error_log>>
          /\ hist' = hist
      ]_vars

\* C12 witness: the rotator was called with no model loaded and the cursor
\* left at 1 by an earlier rotation; it returned nothing and the cursor is
\* still 1
C12_Witness ==
    /\ run.event = "rotate"
    /\ quickvibe_chat_models = <<>>
    /\ run.selected = NoModel
    /\ run.failures = <<"rotation">>
    /\ current_model_index = 1

\* a message run whose dispatch failed
FailedDispatch == run.event = "message" /\ run.result # <<>> /\ ~ run.result[1]

IsErrorEntry(e) == e.role = "assistant" /\ "error" \in DOMAIN e /\ e.error

\* C13: a failed dispatch of a user message appends to the transcript the
\* user entry followed by one assistant entry tagged as an error, carrying
\* the failure message and the model used; it leaves the credential, the
\* validation flag and the model sequence unchanged, so the chat gate still
\* passes, and a message submitted next is dispatched with the model that
\* follows in the rotation.
C13_FailedDispatch ==
    [][/\ FailedDispatch' =>
            /\ \E m \in Messages :
                  hist'.all_chat = hist.all_chat \o
                      << [role |-> "user", content |-> m],
                         [role |-> "assistant", content |-> run'.result[2],
                          model_used |-> run'.selected, error |-> TRUE] >>
            /\ chat_history' = LastN(hist'.all_chat,
                                     MinOf({Len(hist'.all_chat), MAX_CHAT_HISTORY}))
            /\ run'.selected = quickvibe_chat_models[current_model_index + 1]
            /\ UNCHANGED <<api_key, api_validated, quickvibe_chat_models>>
            /\ is_quickvibe_api_configured(Session)'
            /\ current_model_index' =
                  (current_model_index + 1) % Len(quickvibe_chat_models)
       /\ (FailedDispatch /\ run'.event = "message") =>
            /\ run'.selected = quickvibe_chat_models[current_model_index + 1]
            /\ run'.dispatch # "none"
            /\ Len(quickvibe_chat_models) > 1 => run'.selected # run.selected
      ]_vars

\* C13 witness: two messages in a row failed at the completion call, the
\* second one dispatched with the other model
C13_Witness ==
    /\ FailedDispatch
    /\ run.dispatch = "exception"
    /\ LET n == Len(chat_history)
       IN  /\ n >= 4
           /\ chat_history[n - 1].role = "user"
           /\ IsErrorEntry(chat_history[n])
           /\ IsErrorEntry(chat_history[n - 2])
           /\ chat_history[n].model_used = run.selected
           /\ chat_history[n - 2].model_used # run.selected
    /\ is_quickvibe_api_configured(Session)

\* C14: after any sequence of log_quickvibe_error calls the session error
\* log never holds more than ERROR_LOG_LIMIT entries (the call that would
\* make it longer cuts it to its last ERROR_LOG_KEEP entries), it is a
\* contiguous suffix, in logging order, of everything ever logged, and the
\* entry logged last is its last element.
C14_LogBoundedSuffix ==
    LET total == Len(hist.all_logged)
        n == Len(error_log)
    IN  /\ n <= ERROR_LOG_LIMIT
        /\ n <= total
        /\ error_log = LastN(hist.all_logged, n)
        /\ total > 0 => n > 0 /\ error_log[n] = hist.all_logged[total]
        /\ total <= ERROR_LOG_LIMIT => error_log = hist.all_logged
        /\ total = ERROR_LOG_LIMIT + 1 => n = ERROR_LOG_KEEP
        /\ \A i \in 1..(n - 1) : error_log[i].timestamp < error_log[i + 1].timestamp

\* C14 witness: the log was cut at the call that made it 101 entries long
\* and one more entry was logged since; it holds entries 52 to 102
C14_Witness ==
    /\ run.event = "log"
    /\ Len(hist.all_logged) = ERROR_LOG_LIMIT + 2
    /\ Len(error_log) = ERROR_LOG_KEEP + 1
    /\ error_log[1] = hist.all_logged[ERROR_LOG_LIMIT + 2 - ERROR_LOG_KEEP]
    /\ error_log[Len(error_log)].timestamp = now

\* C15: in every state between user actions api_validated is true if and
\* only if the model sequence is non-empty; hence whenever the chat gate
\* _is_quickvibe_api_configured passes, get_next_quickvibe_model returns a
\* model, and a run that handles a message never takes the "no models
\* loaded" branch: it selects a model and goes on to the dispatch.
C15_ValidatedIffModels ==
    /\ api_validated <=> quickvibe_chat_models # <<>>
    /\ is_quickvibe_api_configured(Session) =>
          get_next_quickvibe_model(Session).run.selected # NoModel
    /\ run.event = "message" =>
          /\ run.selected # NoModel
          /\ run.dispatch # "none"
          /\ run.failures \in {<<>>, <<"validation">>, <<"dispatch">>}

\* C15 witness: the key was replaced by another one, the connect succeeded
\* and a message was then dispatched with a model
C15_Witness ==
    /\ api_key = ValidKeyB
    /\ api_validated
    /\ quickvibe_chat_models # <<>>
    /\ run.event = "message"
    /\ run.selected = quickvibe_chat_models[1]

\* C15 witness of the other side: a connect has failed, the flag is false and
\* no model is left
C15_WitnessFailedConnect ==
    /\ run.event = "connect"
    /\ run.fetches = 1
    /\ run.failures # <<>>
    /\ ~ api_validated
    /\ quickvibe_chat_models = <<>>
    /\ hist.returned # <<>>

====
